---- MODULE Spec2Model ----
(***************************************************************************)
(* Accountability Calendars generator (generate.py): the date engine, the  *)
(* grid geometry, the calendar renderer and the interactive main().        *)
(*                                                                         *)
(* Text is a sequence of one-character strings, so that parsing,           *)
(* stripping, splitting and formatting are computed character by           *)
(* character.  A datetime is a record [year, month, day, tod] (tod: the    *)
(* seconds since midnight, which date arithmetic carries along).           *)
(***************************************************************************)
EXTENDS Integers, Sequences, FiniteSets, TLC

VARIABLES
    \* ---- one call of a function: which, its argument, its result
    fn, arg, ret,
    drawing,         \* the page _create_calendar_pdf is drawing, if any
    \* ---- a run of main()
    pc,              \* where main() is: the prompt it blocks on, or its end
    today,           \* datetime.today() of this run
    next_monday,     \* prompt_date's next_monday
    start_date,      \* main's start_date
    calendars,       \* main's calendars (a list of variant names)
    goal,            \* main's goal (NoValue models None)
    workout_labels,  \* main's workout_labels (NoValue models None)
    cal_idx,         \* how many iterations of the generation loop have ended
    calls,           \* the generate_* calls made, with their arguments
    created,         \* the paths of the "Created: <path>" lines printed
    crash,           \* the exception that ended main(), if any
    last_input,      \* the line input() returned last
    message,         \* the error line the last step printed, if any
    prompted_goal,   \* has the weekly page goal been prompted
    label_history    \* the workout-label prompts answered: day and answer

fnvars == <<fn, arg, ret, drawing>>

mainvars == <<pc, today, next_monday, start_date, calendars, goal,
              workout_labels, cal_idx, calls, created, crash, last_input,
              message, prompted_goal, label_history>>

vars == <<fn, arg, ret, drawing, pc, today, next_monday, start_date,
          calendars, goal, workout_labels, cal_idx, calls, created, crash,
          last_input, message, prompted_goal, label_history>>

(***************************************************************************)
(* Results: a value, or a raised exception.                                *)
(***************************************************************************)
Ok(v) == [exc |-> "", val |-> v]

Raise(e, m) == [exc |-> e, msg |-> m]

Pending == [exc |-> "pending"]

NotDrawing == [active |-> FALSE]

(***************************************************************************)
(* Text helpers.                                                           *)
(***************************************************************************)
Digits == <<"0", "1", "2", "3", "4", "5", "6", "7", "8", "9">>

IsDigit(c) == \E i \in 1..10 : Digits[i] = c

DigitVal(c) == (CHOOSE i \in 1..10 : Digits[i] = c) - 1

\* the characters str.strip() removes (those the inputs here can hold)
IsSpace(c) == c \in {" ", "\t"}

RECURSIVE LStrip(_)
LStrip(s) == IF s # <<>> /\ IsSpace(Head(s)) THEN LStrip(Tail(s)) ELSE s

RECURSIVE RStrip(_)
RStrip(s) ==
    IF s # <<>> /\ IsSpace(s[Len(s)]) THEN RStrip(SubSeq(s, 1, Len(s) - 1))
    ELSE s

\* str.strip()
Strip(s) == RStrip(LStrip(s))

\* "%02d" of a number below 100
TwoDigits(n) == <<Digits[(n \div 10) + 1], Digits[(n % 10) + 1]>>

(***************************************************************************)
(* datetime: the proleptic Gregorian calendar of years 1..MAXYEAR.         *)
(***************************************************************************)
MINYEAR == 1

MAXYEAR == 9999

IsLeap(y) == y % 4 = 0 /\ (y % 100 # 0 \/ y % 400 = 0)

DAYS_IN_MONTH == <<31, 28, 31, 30, 31, 30, 31, 31, 30, 31, 30, 31>>

DAYS_BEFORE_MONTH == <<0, 31, 59, 90, 120, 151, 181, 212, 243, 273, 304, 334>>

DaysInMonth(y, m) == IF m = 2 /\ IsLeap(y) THEN 29 ELSE DAYS_IN_MONTH[m]

DaysBeforeYear(y) ==
    (y - 1) * 365 + ((y - 1) \div 4) - ((y - 1) \div 100) + ((y - 1) \div 400)

DaysBeforeMonth(y, m) ==
    DAYS_BEFORE_MONTH[m] + (IF m > 2 /\ IsLeap(y) THEN 1 ELSE 0)

\* datetime.toordinal(): 0001-01-01 is day 1
YmdToOrd(dt) ==
    DaysBeforeYear(dt.year) + DaysBeforeMonth(dt.year, dt.month) + dt.day

MaxOrdinal == DaysBeforeYear(MAXYEAR) + 365

\* the inverse, by 400-, 100-, 4- and 1-year cycles
OrdToYmd(ordinal, tod) ==
    LET n0   == ordinal - 1
        n400 == n0 \div 146097
        r400 == n0 % 146097
        n100 == r400 \div 36524
        r100 == r400 % 36524
        n4   == r100 \div 1461
        r4   == r100 % 1461
        n1   == r4 \div 365
        n    == r4 % 365
        year == n400 * 400 + 1 + n100 * 100 + n4 * 4 + n1
        leapyear == n1 = 3 /\ (n4 # 24 \/ n100 = 3)
        month0 == (n + 50) \div 32
        prec0  == DAYS_BEFORE_MONTH[month0]
                  + (IF month0 > 2 /\ leapyear THEN 1 ELSE 0)
        month  == IF prec0 > n THEN month0 - 1 ELSE month0
        prec   == IF prec0 > n
                  THEN prec0 - (DAYS_IN_MONTH[month]
                                + (IF month = 2 /\ leapyear THEN 1 ELSE 0))
                  ELSE prec0
    IN  IF n1 = 4 \/ n100 = 4
        THEN [year |-> year - 1, month |-> 12, day |-> 31, tod |-> tod]
        ELSE [year |-> year, month |-> month, day |-> n - prec + 1, tod |-> tod]

\* datetime.weekday(): Monday is 0
Weekday(dt) == (YmdToOrd(dt) + 6) % 7

\* datetime + timedelta(days=n): OverflowError outside year 1..9999
AddDays(dt, n) ==
    LET o == YmdToOrd(dt) + n
    IN  IF o < 1 \/ o > MaxOrdinal
        THEN Raise("OverflowError", "date value out of range")
        ELSE Ok(OrdToYmd(o, dt.tod))

Date(y, m, d) == [year |-> y, month |-> m, day |-> d, tod |-> 0]

(***************************************************************************)
(* get_next_monday, with datetime.today() as its input.                    *)
(***************************************************************************)
DaysAheadNoWrap(t) == 7 - Weekday(t)

\* days_ahead = (7 - today.weekday()) % 7
DaysAhead(t) == (7 - Weekday(t)) % 7

get_next_monday(t) == AddDays(t, DaysAhead(t))

(***************************************************************************)
(* generate_week_dates                                                     *)
(***************************************************************************)
WeekStartOffsetDays(week_num) == week_num

\* timedelta(weeks=week_num), in days
WeekStartOffset(week_num) == 7 * week_num

\* the first of a list of results that is an exception
FirstRaised(rs) ==
    rs[CHOOSE i \in 1..Len(rs) :
          rs[i].exc # "" /\ \A j \in 1..(i - 1) : rs[j].exc = ""]

\* one iteration of the loop: week_start and the week's seven dates
WeekAt(start_d, week_num) ==
    LET week_start == AddDays(start_d, WeekStartOffset(week_num))
    IN  IF week_start.exc # "" THEN week_start
        ELSE LET days == [d \in 1..7 |-> AddDays(week_start.val, d - 1)]
             IN  IF \E d \in 1..7 : days[d].exc # ""
                 THEN FirstRaised(days)
                 ELSE Ok([d \in 1..7 |-> days[d].val])

generate_week_dates(start_d) ==
    LET ws == [w \in 1..10 |-> WeekAt(start_d, w - 1)]
    IN  IF \E w \in 1..10 : ws[w].exc # ""
        THEN FirstRaised(ws)
        ELSE Ok([w \in 1..10 |-> ws[w].val])

\* format_date: strftime("%m/%d")
format_date(dt) == TwoDigits(dt.month) \o <<"/">> \o TwoDigits(dt.day)

(***************************************************************************)
(* datetime.strptime(date_str, "%m/%d/%Y"): the format's regular           *)
(* expression (1[0-2]|0[1-9]|[1-9])/(3[01]|[12]\d|0[1-9]|[1-9]| [1-9])/\d{4} *)
(* must match the whole string, and the fields must name a real date.      *)
(***************************************************************************)
NonZeroDigit(c) == IsDigit(c) /\ c # "0"

MatchMonth(tok) ==
    \/ Len(tok) = 2 /\ tok[1] = "1" /\ tok[2] \in {"0", "1", "2"}
    \/ Len(tok) = 2 /\ tok[1] = "0" /\ NonZeroDigit(tok[2])
    \/ Len(tok) = 1 /\ NonZeroDigit(tok[1])

MatchDay(tok) ==
    \/ Len(tok) = 2 /\ tok[1] = "3" /\ tok[2] \in {"0", "1"}
    \/ Len(tok) = 2 /\ tok[1] \in {"1", "2"} /\ IsDigit(tok[2])
    \/ Len(tok) = 2 /\ tok[1] = "0" /\ NonZeroDigit(tok[2])
    \/ Len(tok) = 1 /\ NonZeroDigit(tok[1])
    \/ Len(tok) = 2 /\ tok[1] = " " /\ NonZeroDigit(tok[2])

MatchYear(tok) == Len(tok) = 4 /\ \A i \in 1..4 : IsDigit(tok[i])

\* int() of a matched field (leading blanks skipped)
RECURSIVE ToInt(_)
ToInt(tok) ==
    IF tok = <<>> THEN 0
    ELSE IF Head(tok) = " " /\ Len(tok) > 1 THEN ToInt(Tail(tok))
    ELSE 10 * ToInt(SubSeq(tok, 1, Len(tok) - 1)) + DigitVal(tok[Len(tok)])

\* the field lengths <<month, day>> under which the expression matches s
FieldSplits(s) ==
    {sp \in {1, 2} \X {1, 2} :
        /\ Len(s) = sp[1] + sp[2] + 6
        /\ s[sp[1] + 1] = "/"
        /\ s[sp[1] + sp[2] + 2] = "/"
        /\ MatchMonth(SubSeq(s, 1, sp[1]))
        /\ MatchDay(SubSeq(s, sp[1] + 2, sp[1] + sp[2] + 1))
        /\ MatchYear(SubSeq(s, sp[1] + sp[2] + 3, Len(s)))}

strptime(s) ==
    IF FieldSplits(s) = {}
    THEN Raise("ValueError", "time data does not match format")
    ELSE LET sp == CHOOSE x \in FieldSplits(s) : TRUE
             m  == ToInt(SubSeq(s, 1, sp[1]))
             d  == ToInt(SubSeq(s, sp[1] + 2, sp[1] + sp[2] + 1))
             y  == ToInt(SubSeq(s, sp[1] + sp[2] + 3, Len(s)))
         IN  IF y < MINYEAR
             THEN Raise("ValueError", "year is out of range")
             ELSE IF d > DaysInMonth(y, m)
             THEN Raise("ValueError", "day is out of range for month")
             ELSE Ok(Date(y, m, d))

(***************************************************************************)
(* validate_date                                                           *)
(***************************************************************************)
FormatMsg == "Invalid date format. Please use MM/DD/YYYY."

MondayMsg == "Date must be a Monday."

IsStartWeekdaySunday(dt) == Weekday(dt) = 6

\* dt.weekday() == 0
IsStartWeekday(dt) == Weekday(dt) = 0

validate_date(date_str) ==
    LET dt == strptime(date_str)
    IN  IF dt.exc = "ValueError" THEN Raise("ValueError", FormatMsg)
        ELSE IF ~IsStartWeekday(dt.val) THEN Raise("ValueError", MondayMsg)
        ELSE dt

(***************************************************************************)
(* A run of main() that has not started: what the specifications of the   *)
(* single functions hold main's variables at.                              *)
(***************************************************************************)
NoValue == [set |-> FALSE]

MainIdle ==
    /\ pc = "idle"
    /\ today = Date(1, 1, 1)
    /\ next_monday = NoValue
    /\ start_date = NoValue
    /\ calendars = <<>>
    /\ goal = NoValue
    /\ workout_labels = NoValue
    /\ cal_idx = 0
    /\ calls = <<>>
    /\ created = <<>>
    /\ crash = ""
    /\ last_input = <<>>
    /\ message = ""
    /\ prompted_goal = FALSE
    /\ label_history = <<>>

(***************************************************************************)
(* The dates the date functions are applied to: every day within           *)
(* WindowDays of an anchor (a test's start date, leap days, a century      *)
(* that is no leap year, the first and the last day datetime can hold),    *)
(* at midnight and at a time of day.                                       *)
(***************************************************************************)
WindowDays == 75

Anchors ==
    {Date(2026, 3, 2), Date(2025, 12, 29), Date(2024, 2, 29),
     Date(2100, 2, 28), Date(MINYEAR, 1, 1), Date(MAXYEAR, 12, 31)}

Tods == {0, 45296}

Max(a, b) == IF a > b THEN a ELSE b

Min(a, b) == IF a < b THEN a ELSE b

WindowDates ==
    UNION {{OrdToYmd(o, t) :
              o \in Max(1, YmdToOrd(a) - WindowDays)
                    ..Min(MaxOrdinal, YmdToOrd(a) + WindowDays),
              t \in Tods} : a \in Anchors}

Called == ret.exc # "pending"

InitDates ==
    /\ MainIdle
    /\ drawing = NotDrawing
    /\ ret = Pending
    /\ fn \in {"generate_week_dates", "get_next_monday"}
    /\ arg \in WindowDates

CallGenerateWeekDates ==
    /\ fn = "generate_week_dates"
    /\ ~Called
    /\ ret' = generate_week_dates(arg)
    /\ UNCHANGED <<fn, arg, drawing, mainvars>>

CallGetNextMonday ==
    /\ fn = "get_next_monday"
    /\ ~Called
    /\ ret' = get_next_monday(arg)
    /\ UNCHANGED <<fn, arg, drawing, mainvars>>

NextDates == CallGenerateWeekDates \/ CallGetNextMonday

SpecDates == InitDates /\ [][NextDates]_vars

(***************************************************************************)
(* The calendar, stated without ordinals: the day after a day, the day k   *)
(* days later, the order of days, and Monday by Zeller's congruence.       *)
(***************************************************************************)
NextDay(dt) ==
    IF dt.day < (IF dt.month = 2
                 THEN (IF IsLeap(dt.year) THEN 29 ELSE 28)
                 ELSE IF dt.month \in {4, 6, 9, 11} THEN 30 ELSE 31)
    THEN [dt EXCEPT !.day = dt.day + 1]
    ELSE IF dt.month < 12
    THEN [dt EXCEPT !.month = dt.month + 1, !.day = 1]
    ELSE [dt EXCEPT !.year = dt.year + 1, !.month = 1, !.day = 1]

\* dt + k days, by halving k; a date's day is always >= 1
RECURSIVE Later(_, _)
Later(dt, k) ==
    IF k = 0 THEN dt
    ELSE IF k = 1 THEN NextDay(dt)
    ELSE LET half == Later(dt, k \div 2)
         IN  IF half.day >= 1 THEN Later(half, k - k \div 2) ELSE half

NotAfter(a, b) ==
    \/ a.year < b.year
    \/ a.year = b.year /\ a.month < b.month
    \/ a.year = b.year /\ a.month = b.month /\ a.day <= b.day

ZellerIsMonday(dt) ==
    LET m == IF dt.month < 3 THEN dt.month + 12 ELSE dt.month
        y == IF dt.month < 3 THEN dt.year - 1 ELSE dt.year
        k == y % 100
        j == y \div 100
    IN  (dt.day + ((13 * (m + 1)) \div 5) + k + (k \div 4) + (j \div 4) + 5 * j)
            % 7 = 2

\* the i-th (0..69) date of a 10 x 7 matrix read week by week
Flat(weeks, i) == weeks[(i \div 7) + 1][(i % 7) + 1]

TenWeeksFrom(start_d, r) ==
    /\ r.exc = ""
    /\ Len(r.val) = 10
    /\ \A w \in 1..10 : Len(r.val[w]) = 7
    /\ \A i \in 0..68 : Flat(r.val, i + 1) = NextDay(Flat(r.val, i))
    /\ r.val[1][1] = start_d
    /\ \A w \in 1..9 : r.val[w + 1][1] = Later(r.val[w][1], 7)

\* C1 as stated: for every start date, generate_week_dates returns 10 weeks
\* of 7 dates, each one day after the one before it, week i starting at
\* start + 7*i days.
C1_EveryStartHasTenWeeks ==
    (fn = "generate_week_dates" /\ Called) => TenWeeksFrom(arg, ret)

\* C1 amended: that holds for every start date up to 9999-10-23 (start + 69
\* days is then no later than 9999-12-31, the last day a datetime holds);
\* for a later start date generate_week_dates raises OverflowError.
C1_TenWeeksWithinRange ==
    (fn = "generate_week_dates" /\ Called) =>
        IF NotAfter(arg, Date(MAXYEAR, 10, 23))
        THEN TenWeeksFrom(arg, ret)
        ELSE ret.exc = "OverflowError"

\* a start date whose ten weeks cross a year boundary and a leap day
C1_Witness ==
    /\ fn = "generate_week_dates" /\ Called /\ ret.exc = ""
    /\ arg = [Date(2023, 12, 25) EXCEPT !.tod = 45296]
    /\ ret.val[10][7] = [Date(2024, 3, 3) EXCEPT !.tod = 45296]

NextMondayOf(d, r) ==
    /\ r.exc = ""
    /\ ZellerIsMonday(r.val)
    /\ \E k \in 0..6 : r.val = Later(d, k)
    /\ (r.val = d) <=> ZellerIsMonday(d)

\* C6 as stated: for every day d, get_next_monday from d returns a Monday 0
\* to 6 days after d, and d itself iff d is a Monday.
C6_EveryDayHasNextMonday ==
    (fn = "get_next_monday" /\ Called) => NextMondayOf(arg, ret)

\* C6 amended: that holds for every day d up to 9999-12-27, the last Monday
\* a datetime holds; from a later day get_next_monday raises OverflowError.
C6_NextMondayWithinRange ==
    (fn = "get_next_monday" /\ Called) =>
        IF NotAfter(arg, Date(MAXYEAR, 12, 27))
        THEN NextMondayOf(arg, ret)
        ELSE ret.exc = "OverflowError"

\* a Tuesday, whose next Monday is six days later in the next year
C6_Witness ==
    /\ fn = "get_next_monday" /\ Called /\ ret.exc = ""
    /\ arg = Date(2025, 12, 30)
    /\ ret.val = Date(2026, 1, 5)

(***************************************************************************)
(* The strings validate_date is applied to: a month field, a separator, a  *)
(* day field, a separator, a year field and a tail, each from a few        *)
(* well-formed and ill-formed spellings, and the two strings of the tests. *)
(***************************************************************************)
MonthFields ==
    {<<"0", "3">>, <<"3">>, <<"1", "2">>, <<"0", "0">>, <<"1", "3">>,
     <<"0", "2">>, <<" ", "3">>, <<>>}

DayFields ==
    {<<"0", "2">>, <<"2">>, <<" ", "2">>, <<"0", "3">>, <<"2", "9">>,
     <<"3", "0">>, <<"3", "1">>, <<"3", "2">>, <<"0", "0">>}

YearFields ==
    {<<"2", "0", "2", "6">>, <<"2", "0", "2", "4">>, <<"2", "6">>,
     <<"0", "0", "0", "0">>, <<"9", "9", "9", "9">>,
     <<"0", "2", "0", "2", "6">>}

Separators == {<<"/">>, <<"-">>}

Tails == {<<>>, <<" ">>}

TextInputs ==
    {m \o a \o d \o b \o y \o t :
        m \in MonthFields, a \in Separators, d \in DayFields,
        b \in Separators, y \in YearFields, t \in Tails}
    \cup {<<"2", "0", "2", "6", "-", "0", "3", "-", "0", "2">>,
          <<"n", "o", "t", "-", "a", "-", "d", "a", "t", "e">>}

InitParse ==
    /\ MainIdle
    /\ drawing = NotDrawing
    /\ ret = Pending
    /\ fn = "validate_date"
    /\ arg \in {[text |-> s] : s \in TextInputs}

CallValidateDate ==
    /\ fn = "validate_date"
    /\ ~Called
    /\ ret' = validate_date(arg.text)
    /\ UNCHANGED <<fn, arg, drawing, mainvars>>

\* format_date of the date validate_date returned
CallFormatDate ==
    /\ fn = "validate_date"
    /\ ret.exc = ""
    /\ fn' = "format_date"
    /\ arg' = [text |-> arg.text, dt |-> ret.val]
    /\ ret' = Ok(format_date(ret.val))
    /\ UNCHANGED <<drawing, mainvars>>

NextParse == CallValidateDate \/ CallFormatDate

SpecParse == InitParse /\ [][NextParse]_vars

BeforeSecondSlash(s) ==
    LET slashes == {i \in 1..Len(s) : s[i] = "/"}
        first   == CHOOSE i \in slashes : \A j \in slashes : i <= j
        second  == CHOOSE i \in slashes \ {first} :
                       \A j \in slashes \ {first} : i <= j
    IN  SubSeq(s, 1, second - 1)

\* C7 as stated: for every string validate_date accepts, format_date of the
\* returned date is the month/day part of the string.
C7_FormatIsMonthDayOfInput ==
    (fn = "format_date" /\ Called) => ret.val = BeforeSecondSlash(arg.text)

(***************************************************************************)
(* The renderer.  The FPDF object is its current font, its current fill    *)
(* colour and the list of what was drawn; a drawn rectangle or text cell   *)
(* records the grid cell it belongs to (row 0 is the header, column 0 the  *)
(* week-number column) and the font and fill current when it was drawn.    *)
(* The coordinates of the cells are computed by the grid geometry below.   *)
(***************************************************************************)
COLOR_LIGHT_BLUE == <<173, 216, 230>>

COLOR_PEACH == <<255, 218, 185>>

DAY_NAMES ==
    <<<<"M", "o", "n">>, <<"T", "u", "e">>, <<"W", "e", "d">>, <<"T", "h", "u">>, <<"F", "r", "i">>, <<"S", "a", "t">>, <<"S", "u", "n">>>>

\* str() of a natural number
RECURSIVE IntToText(_)
IntToText(n) ==
    IF n < 10 THEN <<Digits[n + 1]>>
    ELSE IntToText(n \div 10) \o <<Digits[(n % 10) + 1]>>

\* FPDF(...), add_page(): nothing drawn, no font chosen yet
NewPdf == [font_style |-> "", font_size |-> 0, fill |-> <<0, 0, 0>>, out |-> <<>>]

SetFont(pdf, style, size) == [pdf EXCEPT !.font_style = style, !.font_size = size]

SetFillColor(pdf, color) == [pdf EXCEPT !.fill = color]

Drawn(pdf, op, row, col, part, style, text, align) ==
    [pdf EXCEPT !.out = Append(@,
        [op |-> op, row |-> row, col |-> col, part |-> part, style |-> style,
         text |-> text, align |-> align, fill |-> pdf.fill,
         font_style |-> pdf.font_style, font_size |-> pdf.font_size])]

\* pdf.rect(x, y, w, h, style)
Rect(pdf, row, col, part, style) ==
    Drawn(pdf, "rect", row, col, part, style, <<>>, "")

\* pdf.set_xy(...); pdf.cell(w, h, text, align=align)
Cell(pdf, row, col, part, text, align) ==
    Drawn(pdf, "cell", row, col, part, "", text, align)

\* _draw_header_row: one filled rectangle and one centred label per column
\* (zip stops at the shorter of headers and col_widths)
RECURSIVE DrawHeaderFrom(_, _, _, _)
DrawHeaderFrom(pdf, headers, ncols, i) ==
    IF i >= Min(Len(headers), ncols) THEN pdf
    ELSE DrawHeaderFrom(
             Cell(Rect(SetFillColor(pdf, COLOR_LIGHT_BLUE), 0, i, "header", "FD"),
                  0, i, "header", headers[i + 1], "C"),
             headers, ncols, i + 1)

draw_header_row(pdf, headers, ncols) == DrawHeaderFrom(pdf, headers, ncols, 0)

\* a Python list or None used as a condition
Truthy(opt) == opt.set /\ Len(opt.val) > 0

Some(v) == [set |-> TRUE, val |-> v]

\* the body of the day loop of _draw_week_row
DrawDay(pdf, row, day_idx, week_dates, labels) ==
    LET boxed == Rect(pdf, row, 1 + day_idx, "day", "D")
        dated == Cell(SetFont(boxed, "", 7), row, 1 + day_idx, "date",
                      format_date(week_dates[day_idx + 1]), "R")
    IN  IF Truthy(labels)
        THEN Cell(SetFont(dated, "", 9), row, 1 + day_idx, "label",
                  labels.val[day_idx + 1], "C")
        ELSE dated

RECURSIVE DrawDaysFrom(_, _, _, _, _)
DrawDaysFrom(pdf, row, day_idx, week_dates, labels) ==
    IF day_idx >= 7 THEN pdf
    ELSE DrawDaysFrom(DrawDay(pdf, row, day_idx, week_dates, labels),
                      row, day_idx + 1, week_dates, labels)

RECURSIVE DrawTotalLinesFrom(_, _, _, _, _)
DrawTotalLinesFrom(pdf, row, col, lines, li) ==
    IF li >= Len(lines) THEN pdf
    ELSE DrawTotalLinesFrom(Cell(pdf, row, col, "total", lines[li + 1], "L"),
                            row, col, lines, li + 1)

\* the TOTAL column of _draw_week_row (col_widths[-1])
DrawTotal(pdf, row, ncols, has_total, total_content) ==
    IF ~has_total THEN pdf
    ELSE LET boxed == Rect(pdf, row, ncols - 1, "total", "D")
         IN  IF Truthy(total_content)
             THEN DrawTotalLinesFrom(SetFont(boxed, "", 8), row, ncols - 1,
                                     total_content.val, 0)
             ELSE boxed

\* _draw_week_row: the week-number cell in whatever font is current, the
\* seven day cells, the optional totals cell
draw_week_row(pdf, ncols, week_num, week_dates, has_total, total_content, labels) ==
    LET numbered == Cell(Rect(SetFillColor(pdf, COLOR_PEACH),
                              week_num, 0, "week", "FD"),
                         week_num, 0, "week", IntToText(week_num), "C")
        days == DrawDaysFrom(numbered, week_num, 0, week_dates, labels)
    IN  DrawTotal(days, week_num, ncols, has_total, total_content)

WeekLabelZeroBased(week_idx) == week_idx

\* the week_num passed to _draw_week_row: week_idx + 1
WeekLabel(week_idx) == week_idx + 1

\* headers and col_widths of the variants with a TOTAL column
TotalsHeaders == <<<<"W", "e", "e", "k">>>> \o DAY_NAMES \o <<<<"T", "O", "T", "A", "L">>>>

TotalsColWidths == <<40, 90, 90, 90, 90, 90, 90, 90, 80>>

\* headers and col_widths of the workouts variant
DaysHeaders == <<<<"W", "e", "e", "k">>>> \o DAY_NAMES

DaysColWidths == <<40, 100, 100, 100, 100, 100, 100, 100>>

\* f"Goal: {goal}"
GoalLine(g) == <<"G", "o", "a", "l", ":", " ">> \o IntToText(g)

\* what a generate_* function passes to _create_calendar_pdf
PagesReadJob(g) ==
    [filename |-> "Pages Read.pdf", headers |-> TotalsHeaders,
     col_widths |-> TotalsColWidths, has_total |-> TRUE,
     total_content_fn |-> Some(<<GoalLine(g), <<"A", "c", "t", "u", "a", "l", ":">>>>),
     labels |-> NoValue]

ProjectHoursJob ==
    [filename |-> "Project Hours.pdf", headers |-> TotalsHeaders,
     col_widths |-> TotalsColWidths, has_total |-> TRUE,
     total_content_fn |-> Some(<<<<"H", "o", "u", "r", "s", " ", "T", "h", "i", "s", " ", "W", "e", "e", "k", ":">>, <<"D", "e", "b", "t", ":">>>>),
     labels |-> NoValue]

WorkoutsJob(l) ==
    [filename |-> "Workouts.pdf", headers |-> DaysHeaders,
     col_widths |-> DaysColWidths, has_total |-> FALSE,
     total_content_fn |-> NoValue, labels |-> Some(l)]

\* _create_calendar_pdf up to the week-row loop: the bold header row, then
\* the regular size-10 font
BeginPdf(job) ==
    SetFont(draw_header_row(SetFont(NewPdf, "B", 10), job.headers,
                            Len(job.col_widths)),
            "", 10)

\* one iteration of the week-row loop of _create_calendar_pdf
DrawWeek(pdf, job, week_dates_list, week_idx) ==
    draw_week_row(pdf, Len(job.col_widths), WeekLabel(week_idx),
                  week_dates_list[week_idx + 1], job.has_total,
                  IF job.total_content_fn.set
                  THEN Some(job.total_content_fn.val) ELSE NoValue,
                  job.labels)

\* os.makedirs and pdf.output, which raise OSError when the output path
\* cannot be written
OutputPdf(job, writable) ==
    IF writable THEN Ok(job.filename)
    ELSE Raise("OSError", "cannot write the output file")

\* a generate_* function as main() sees it: the dates, the page, the file
generate_calendar(job, start_d, writable) ==
    LET week_dates_list == generate_week_dates(start_d)
    IN  IF week_dates_list.exc # "" THEN week_dates_list
        ELSE OutputPdf(job, writable)

(***************************************************************************)
(* Python floats (IEEE 754 doubles).  A non-negative double is held        *)
(* exactly, as the natural number value * 2^64 written in limbs of 16      *)
(* bits, least significant first (every double of at least 2^-11 is such   *)
(* a multiple of 2^-64).  An operation computes the exact result and       *)
(* rounds it to 53 significant bits, ties to even, as the hardware does.   *)
(***************************************************************************)
LimbWidth == 16

FracLimbs == 4

MantissaBits == 53

LimbBase == 2 ^ LimbWidth

Limb(a, i) == IF i <= Len(a) THEN a[i] ELSE 0

RECURSIVE Trim(_)
Trim(a) ==
    IF a # <<>> /\ a[Len(a)] = 0 THEN Trim(SubSeq(a, 1, Len(a) - 1)) ELSE a

RECURSIVE NatLimbs(_)
NatLimbs(n) ==
    IF n = 0 THEN <<>> ELSE <<n % LimbBase>> \o NatLimbs(n \div LimbBase)

\* float(n) of an int n
FixOfInt(n) == [i \in 1..FracLimbs |-> 0] \o NatLimbs(n)

RECURSIVE AddFrom(_, _, _, _)
AddFrom(a, b, i, carry) ==
    IF i > Max(Len(a), Len(b)) THEN NatLimbs(carry)
    ELSE LET t == Limb(a, i) + Limb(b, i) + carry
         IN  <<t % LimbBase>> \o AddFrom(a, b, i + 1, t \div LimbBase)

\* the exact sum
FixAdd(a, b) == Trim(AddFrom(a, b, 1, 0))

RECURSIVE SubFrom(_, _, _, _)
SubFrom(a, b, i, borrow) ==
    IF i > Len(a) THEN <<>>
    ELSE LET t == a[i] - Limb(b, i) - borrow
         IN  <<(t + LimbBase) % LimbBase>>
             \o SubFrom(a, b, i + 1, IF t < 0 THEN 1 ELSE 0)

\* the exact difference a - b, for a >= b
FixSub(a, b) == Trim(SubFrom(a, b, 1, 0))

RECURSIVE MulFrom(_, _, _, _)
MulFrom(a, w, i, carry) ==
    IF i > Len(a) THEN NatLimbs(carry)
    ELSE LET t == a[i] * w + carry
         IN  <<t % LimbBase>> \o MulFrom(a, w, i + 1, t \div LimbBase)

\* the exact product with a natural number w < 2^14
FixMulInt(a, w) == Trim(MulFrom(a, w, 1, 0))

FixLess(a, b) ==
    \E i \in 1..Max(Len(a), Len(b)) :
        /\ Limb(a, i) < Limb(b, i)
        /\ \A j \in (i + 1)..Max(Len(a), Len(b)) : Limb(a, j) = Limb(b, j)

\* the number of significant bits of a (trimmed, not zero)
BitLen(a) ==
    LimbWidth * (Len(a) - 1)
        + (CHOOSE k \in 1..LimbWidth :
               2 ^ (k - 1) <= a[Len(a)] /\ a[Len(a)] < 2 ^ k)

\* bit i (from 0) of a
Bit(a, i) == (Limb(a, (i \div LimbWidth) + 1) \div (2 ^ (i % LimbWidth))) % 2

\* a with its lowest k bits cleared
ClearLow(a, k) ==
    [i \in 1..Len(a) |->
        IF i <= k \div LimbWidth THEN 0
        ELSE IF i = (k \div LimbWidth) + 1
        THEN a[i] - (a[i] % (2 ^ (k % LimbWidth)))
        ELSE a[i]]

\* 2^k
FixPow2(k) == [i \in 1..(k \div LimbWidth) |-> 0] \o <<2 ^ (k % LimbWidth)>>

\* the double nearest to the exact value a (plus a little more than a when
\* sticky), ties to even
RoundDouble(a, sticky) ==
    IF a = <<>> \/ BitLen(a) <= MantissaBits THEN a
    ELSE LET drop  == BitLen(a) - MantissaBits
             guard == Bit(a, drop - 1) = 1
             low   == sticky \/ \E i \in 0..(drop - 2) : Bit(a, i) = 1
             odd   == Bit(a, drop) = 1
         IN  IF guard /\ (low \/ odd)
             THEN FixAdd(ClearLow(a, drop), FixPow2(drop))
             ELSE ClearLow(a, drop)

\* the limbs of the fraction r / q, most significant first, and what remains
RECURSIVE FracDigits(_, _, _)
FracDigits(r, q, n) ==
    IF n = 0 THEN [digits |-> <<>>, rem |-> r]
    ELSE LET rest == FracDigits((r * LimbBase) % q, q, n - 1)
         IN  [digits |-> <<(r * LimbBase) \div q>> \o rest.digits,
              rem |-> rest.rem]

Reverse(s) == [i \in 1..Len(s) |-> s[Len(s) + 1 - i]]

\* p / q of two positive numbers that are whole (q < 2^15)
FloatDiv(p, q) ==
    LET f == FracDigits(p % q, q, FracLimbs)
    IN  RoundDouble(Trim(Reverse(f.digits) \o NatLimbs(p \div q)), f.rem # 0)

\* n * a of an int n and a float a
FloatMulInt(a, n) == RoundDouble(FixMulInt(a, n), FALSE)

\* a + b
FloatAdd(a, b) == RoundDouble(FixAdd(a, b), FALSE)

(***************************************************************************)
(* The grid geometry of _create_calendar_pdf, and the edges its loops      *)
(* reach: x after the last column of a row (x = x_start; x += w), y of     *)
(* each week row and the bottom of the tenth.                              *)
(***************************************************************************)
PAGE_W == 792

PAGE_H == 612

MARGIN == 20

HEADER_H == 20

TotalColWOneMargin == PAGE_W - MARGIN

\* total_col_w = page_w - 2 * margin
TotalColW == PAGE_W - 2 * MARGIN

RECURSIVE SumInts(_)
SumInts(ws) == IF ws = <<>> THEN 0 ELSE Head(ws) + SumInts(Tail(ws))

\* scale = total_col_w / raw_total; col_widths = [w * scale for w in ...]
ScaledWidths(col_widths) ==
    LET raw_total == SumInts(col_widths)
        scale     == FloatDiv(TotalColW, raw_total)
    IN  [i \in 1..Len(col_widths) |-> FloatMulInt(scale, col_widths[i])]

\* row_h = (page_h - 2 * margin - header_h) / 10
RowHeight == FloatDiv(PAGE_H - 2 * MARGIN - HEADER_H, 10)

\* x after the first n columns: x = x_start, then x += w for each
RECURSIVE XAfter(_, _)
XAfter(widths, n) ==
    IF n = 0 THEN FixOfInt(MARGIN)
    ELSE FloatAdd(XAfter(widths, n - 1), widths[n])

\* y = y_start + header_h + week_idx * row_h
RowTop(week_idx) ==
    FloatAdd(FixOfInt(MARGIN + HEADER_H), FloatMulInt(RowHeight, week_idx))

grid_geometry(col_widths) ==
    LET widths == ScaledWidths(col_widths)
    IN  [col_widths |-> widths,
         row_h      |-> RowHeight,
         x_end      |-> XAfter(widths, Len(widths)),
         rows_h     |-> FloatAdd(FloatMulInt(RowHeight, 10), FixOfInt(HEADER_H)),
         y_bottom   |-> FloatAdd(RowTop(9), RowHeight)]

(***************************************************************************)
(* The generate_* functions applied to start dates (the Mondays among the  *)
(* window dates), goals, label lists and a writable or unwritable output   *)
(* path.  A call computes the dates, draws the header, draws the week rows *)
(* one loop iteration at a time, and writes the file.                      *)
(***************************************************************************)
RenderStarts == {d \in WindowDates : Weekday(d) = 0}

Goals == {1, 100}

LabelLists ==
    {<<<<"4", " ", "M", "i", "l", "e", "s">>, <<"W", "e", "i", "g", "h", "t", "s">>, <<"R", "e", "s", "t">>, <<"4", " ", "M", "i", "l", "e", "s">>, <<"W", "e", "i", "g", "h", "t", "s">>, <<"R", "e", "s", "t">>, <<"R", "e", "s", "t">>>>,
     <<<<>>, <<>>, <<>>, <<>>, <<>>, <<>>, <<>>>>}

InitRender ==
    /\ MainIdle
    /\ ret = Pending
    /\ drawing = NotDrawing
    /\ \E s \in RenderStarts, w \in BOOLEAN :
          \/ \E g \in Goals :
                /\ fn = "generate_pages_read"
                /\ arg = [start |-> s, goal |-> g, writable |-> w]
          \/ /\ fn = "generate_project_hours"
             /\ arg = [start |-> s, writable |-> w]
          \/ \E l \in LabelLists :
                /\ fn = "generate_workouts"
                /\ arg = [start |-> s, labels |-> l, writable |-> w]

\* generate_week_dates, then the start of _create_calendar_pdf
BeginGenerate(job) ==
    /\ ~Called
    /\ ~drawing.active
    /\ LET week_dates_list == generate_week_dates(arg.start)
       IN  IF week_dates_list.exc # ""
           THEN ret' = week_dates_list /\ UNCHANGED drawing
           ELSE /\ drawing' = [active |-> TRUE, job |-> job,
                               pdf |-> BeginPdf(job),
                               week_dates_list |-> week_dates_list.val,
                               week_idx |-> 0]
                /\ UNCHANGED ret
    /\ UNCHANGED <<fn, arg, mainvars>>

CallGeneratePagesRead ==
    fn = "generate_pages_read" /\ BeginGenerate(PagesReadJob(arg.goal))

CallGenerateProjectHours ==
    fn = "generate_project_hours" /\ BeginGenerate(ProjectHoursJob)

CallGenerateWorkouts ==
    fn = "generate_workouts" /\ BeginGenerate(WorkoutsJob(arg.labels))

DrawNextWeek ==
    /\ drawing.active
    /\ drawing.week_idx < Len(drawing.week_dates_list)
    /\ drawing' = [drawing EXCEPT
           !.pdf = DrawWeek(drawing.pdf, drawing.job,
                            drawing.week_dates_list, drawing.week_idx),
           !.week_idx = @ + 1]
    /\ UNCHANGED <<fn, arg, ret, mainvars>>

OutputPage ==
    /\ drawing.active
    /\ drawing.week_idx >= Len(drawing.week_dates_list)
    /\ LET r == OutputPdf(drawing.job, arg.writable)
       IN  ret' = IF r.exc # "" THEN r
                  ELSE Ok([path |-> r.val, page |-> drawing.pdf.out])
    /\ drawing' = NotDrawing
    /\ UNCHANGED <<fn, arg, mainvars>>

NextRender ==
    \/ CallGeneratePagesRead
    \/ CallGenerateProjectHours
    \/ CallGenerateWorkouts
    \/ DrawNextWeek
    \/ OutputPage

SpecRender == InitRender /\ [][NextRender]_vars

Rendered ==
    /\ fn \in {"generate_pages_read", "generate_project_hours",
               "generate_workouts"}
    /\ Called
    /\ ret.exc = ""

IsWeekLabel(c) == c.op = "cell" /\ c.part = "week"

IsDateLabel(c) == c.op = "cell" /\ c.part = "date"

\* MM/DD of a date, digit by digit
ShortForm(dt) ==
    <<Digits[(dt.month \div 10) + 1], Digits[(dt.month % 10) + 1], "/",
      Digits[(dt.day \div 10) + 1], Digits[(dt.day % 10) + 1]>>

Numeral(k) == IF k = 10 THEN <<"1", "0">> ELSE <<Digits[k + 1]>>

\* a page that holds, after the header row, exactly 10 week rows in
\* top-to-bottom order; row k (1..10) carries the week-number label k and
\* exactly seven date cells left to right, the d-th (0..6) showing the MM/DD
\* form of start + 7*(k-1) + d days
TenLabelledWeekRows(page, start_d) ==
    LET weeks == SelectSeq(page, IsWeekLabel)
        dates == SelectSeq(page, IsDateLabel)
    IN  /\ \A i \in 1..(Len(page) - 1) : page[i].row <= page[i + 1].row
        /\ page[1].row = 0
        /\ {page[i].row : i \in 1..Len(page)} = 0..10
        /\ Len(weeks) = 10
        /\ \A k \in 1..10 :
              /\ weeks[k].row = k /\ weeks[k].col = 0
              /\ weeks[k].text = Numeral(k)
        /\ Len(dates) = 70
        /\ \A k \in 1..10 : \A d \in 0..6 :
              LET c == dates[7 * (k - 1) + d + 1]
              IN  /\ c.row = k /\ c.col = d + 1
                  /\ c.text = ShortForm(Later(start_d, 7 * (k - 1) + d))

\* the week-row loop of the renderer has ended, the file is not yet written
PageComplete ==
    drawing.active /\ drawing.week_idx >= Len(drawing.week_dates_list)

Generated ==
    /\ fn \in {"generate_pages_read", "generate_project_hours",
               "generate_workouts"}
    /\ Called

PagesHaveTenLabelledWeekRows ==
    /\ PageComplete => TenLabelledWeekRows(drawing.pdf.out, arg.start)
    /\ Rendered => TenLabelledWeekRows(ret.val.page, arg.start)

\* C9 as stated: for every start date and every variant the renderer emits
\* the 10 labelled week rows: no call ends without the renderer having
\* drawn them (only the file write after them may fail).
C9_EveryStartRendersTenWeekRows ==
    /\ Generated => ret.exc \in {"", "OSError"}
    /\ PagesHaveTenLabelledWeekRows

\* C9 amended: for every start date up to 9999-10-23 and every variant the
\* renderer emits the 10 labelled week rows; for a later start date the
\* renderer is never reached, the call ends in OverflowError.
C9_TenLabelledWeekRows ==
    /\ Generated =>
           IF NotAfter(arg.start, Date(MAXYEAR, 10, 23))
           THEN ret.exc \in {"", "OSError"}
           ELSE ret.exc = "OverflowError"
    /\ PagesHaveTenLabelledWeekRows

\* the workout page from 2025-12-29: its last date cell shows 03/08
C9_Witness ==
    /\ Rendered
    /\ fn = "generate_workouts"
    /\ arg.start = Date(2025, 12, 29)
    /\ LET dates == SelectSeq(ret.val.page, IsDateLabel)
       IN  dates[70].text = <<"0", "3", "/", "0", "8">> /\ dates[70].row = 10

\* C10 as stated: each of the ten week-number labels of a page is drawn in
\* the regular size-10 font set before the week-row loop.
C10_WeekLabelsInSize10 ==
    Rendered =>
        \A i \in 1..Len(ret.val.page) :
            IsWeekLabel(ret.val.page[i]) =>
                /\ ret.val.page[i].font_size = 10
                /\ ret.val.page[i].font_style = ""

(***************************************************************************)
(* The grid geometry applied to column schemas: a week-number width, a     *)
(* day width and an optional totals width, each the width the variants use *)
(* or up to GeomSteps steps of 10 more.                                    *)
(***************************************************************************)
GeomSteps == 3

Schemas ==
    {<<40 + 10 * i>> \o [d \in 1..7 |-> 90 + 10 * j] \o t :
        i \in 0..GeomSteps, j \in 0..GeomSteps,
        t \in {<<>>} \cup {<<80 + 10 * k>> : k \in 0..GeomSteps}}

InitGeom ==
    /\ MainIdle
    /\ ret = Pending
    /\ drawing = NotDrawing
    /\ fn = "grid_geometry"
    /\ arg \in Schemas

CallGridGeometry ==
    /\ fn = "grid_geometry"
    /\ ~Called
    /\ ret' = Ok(grid_geometry(arg))
    /\ UNCHANGED <<fn, arg, drawing, mainvars>>

NextGeom == CallGridGeometry

SpecGeom == InitGeom /\ [][NextGeom]_vars

\* |a - b| <= 10^-6
WithinTolerance(a, b) ==
    LET diff == IF FixLess(a, b) THEN FixSub(b, a) ELSE FixSub(a, b)
    IN  ~FixLess(FixPow2(LimbWidth * FracLimbs),
                 FixMulInt(FixMulInt(diff, 1000), 1000))

\* C4 as stated: for every column schema the scaled widths sum to the usable
\* width, so that the last column's right edge is exactly on the right
\* margin (792 - 20), and 10 * row height + header height is the usable
\* height (572), the tenth row's bottom edge exactly on the bottom margin.
C4_GridFillsPageExactly ==
    (fn = "grid_geometry" /\ Called /\ arg \in {TotalsColWidths, DaysColWidths}) =>
        /\ ret.val.x_end = FixOfInt(PAGE_W - MARGIN)
        /\ ret.val.rows_h = FixOfInt(PAGE_H - 2 * MARGIN)
        /\ ret.val.y_bottom = FixOfInt(PAGE_H - MARGIN)

\* C4 amended: the right edge is on the right margin within 10^-6 page units
\* (exactly for the 9-column totals schema, not for the 8-column schema);
\* the heights are exact.
C4_GridFillsPageWithinTolerance ==
    (fn = "grid_geometry" /\ Called) =>
        /\ WithinTolerance(ret.val.x_end, FixOfInt(PAGE_W - MARGIN))
        /\ arg = TotalsColWidths => ret.val.x_end = FixOfInt(PAGE_W - MARGIN)
        /\ ret.val.rows_h = FixOfInt(PAGE_H - 2 * MARGIN)
        /\ ret.val.y_bottom = FixOfInt(PAGE_H - MARGIN)

\* the 8-column schema: its right edge is 772 + 2^-43
C4_Witness ==
    /\ fn = "grid_geometry" /\ Called
    /\ arg = DaysColWidths
    /\ ret.val.x_end = FixAdd(FixOfInt(PAGE_W - MARGIN), FixPow2(21))

(***************************************************************************)
(* main(): the prompts, then the generation loop.  A step is main() from   *)
(* one input() (or its start) to the next input() it blocks on, or one     *)
(* iteration of the generation loop.                                       *)
(***************************************************************************)
\* str.split(","): the pieces between the commas
RECURSIVE Split(_)
Split(s) ==
    IF \A i \in 1..Len(s) : s[i] # "," THEN <<s>>
    ELSE LET c == CHOOSE i \in 1..Len(s) :
                      s[i] = "," /\ \A j \in 1..(i - 1) : s[j] # ","
         IN  <<SubSeq(s, 1, c - 1)>> \o Split(SubSeq(s, c + 1, Len(s)))

\* prompt_calendars: options
OptionKeys == {<<"1">>, <<"2">>, <<"3">>}

OptionName(c) ==
    IF c = <<"1">> THEN "Pages Read"
    ELSE IF c = <<"2">> THEN "Project Hours"
    ELSE "Workouts"

AllCalendars == <<"Pages Read", "Project Hours", "Workouts">>

Has(list, x) == \E i \in 1..Len(list) : list[i] = x

\* the loop over choice.split(",")
RECURSIVE SelectFrom(_, _, _)
SelectFrom(pieces, i, selected) ==
    IF i > Len(pieces) THEN selected
    ELSE LET c == Strip(pieces[i])
         IN  SelectFrom(pieces, i + 1,
                 IF c \in OptionKeys /\ ~Has(selected, OptionName(c))
                 THEN Append(selected, OptionName(c))
                 ELSE selected)

\* one pass of prompt_calendars' loop on the stripped input: the list it
\* returns, or <<>> when it prints the error and asks again
SelectCalendars(choice) ==
    IF choice = <<"4">> THEN AllCalendars
    ELSE SelectFrom(Split(choice), 1, <<>>)

\* int(text): blanks around, a sign, digits with single underscores between
IntBody(t) ==
    /\ t # <<>>
    /\ \A i \in 1..Len(t) : IsDigit(t[i]) \/ t[i] = "_"
    /\ IsDigit(t[1]) /\ IsDigit(t[Len(t)])
    /\ \A i \in 1..(Len(t) - 1) : ~(t[i] = "_" /\ t[i + 1] = "_")

RECURSIVE DigitsValue(_)
DigitsValue(t) ==
    IF t = <<>> THEN 0
    ELSE IF t[Len(t)] = "_" THEN DigitsValue(SubSeq(t, 1, Len(t) - 1))
    ELSE 10 * DigitsValue(SubSeq(t, 1, Len(t) - 1)) + DigitVal(t[Len(t)])

ParseInt(text) ==
    LET t      == Strip(text)
        signed == t # <<>> /\ t[1] \in {"+", "-"}
        body   == IF signed THEN Tail(t) ELSE t
    IN  IF ~IntBody(body) THEN Raise("ValueError", "invalid literal for int()")
        ELSE IF signed /\ t[1] = "-" THEN Ok(0 - DigitsValue(body))
        ELSE Ok(DigitsValue(body))

GoalAcceptedFromZero(n) == n >= 0

\* if goal > 0: break
GoalAccepted(n) == n > 0

LabelsCompleteOneShort(labels) == Len(labels) >= Len(DAY_NAMES) - 1

\* for day in DAY_NAMES: the loop has read a label for every day
LabelsComplete(labels) == Len(labels) >= Len(DAY_NAMES)

MenuError == "  Error: Invalid choice. Please enter 1 or 2."

DateErrorLine(msg) ==
    IF msg = FormatMsg
    THEN "  Error: Invalid date format. Please use MM/DD/YYYY."
    ELSE "  Error: Date must be a Monday."

SelectionError == "  Error: Invalid selection. Please try again."

GoalNotPositiveError == "  Error: Goal must be a positive number."

GoalNotNumberError == "  Error: Please enter a valid number."

\* the lines typed at the prompts
MenuInputs == {<<"1">>,
     <<"2">>,
     <<" ", "2", " ">>,
     <<"3">>,
     <<>>,
     <<"x">>,
     <<"1", "2">>}

DateInputs ==
    {<<"0", "3", "/", "0", "2", "/", "2", "0", "2", "6">>,
     <<" ", "0", "3", "/", "0", "2", "/", "2", "0", "2", "6", " ">>,
     <<"3", "/", "2", "/", "2", "0", "2", "6">>,
     <<"0", "3", "/", "0", "3", "/", "2", "0", "2", "6">>,
     <<"2", "0", "2", "6", "-", "0", "3", "-", "0", "2">>,
     <<"0", "2", "/", "3", "0", "/", "2", "0", "2", "6">>,
     <<"1", "2", "/", "2", "7", "/", "9", "9", "9", "9">>,
     <<>>}

CalendarInputs ==
    {<<"4">>,
     <<"1">>,
     <<"2">>,
     <<"3">>,
     <<"1", ",", "3">>,
     <<"3", ",", "1">>,
     <<"1", ",", "9">>,
     <<"9">>,
     <<>>,
     <<"1", ",", "1">>,
     <<" ", "2", " ", ",", " ", "3", " ">>,
     <<"4", ",", "1">>,
     <<"1", ",", "2", ",", "3">>,
     <<",">>,
     <<"x", ",", "2">>}

GoalInputs == {<<"1", "0", "0">>,
     <<" ", "7", " ">>,
     <<"1", "_", "0">>,
     <<"0">>,
     <<"-", "5">>,
     <<"a", "b", "c">>,
     <<>>,
     <<"1", ".", "5">>}

LabelInputs == {<<" ", "R", "u", "n", " ">>,
     <<>>}

Todays ==
    {Date(2026, 3, 2), [Date(2026, 11, 3) EXCEPT !.tod = 45296],
     Date(MAXYEAR, 12, 29)}

Init ==
    /\ fn = "main"
    /\ arg = NoValue
    /\ ret = Pending
    /\ drawing = NotDrawing
    /\ pc = "start"
    /\ today \in Todays
    /\ next_monday = NoValue
    /\ start_date = NoValue
    /\ calendars = <<>>
    /\ goal = NoValue
    /\ workout_labels = NoValue
    /\ cal_idx = 0
    /\ calls = <<>>
    /\ created = <<>>
    /\ crash = ""
    /\ last_input = <<>>
    /\ message = ""
    /\ prompted_goal = FALSE
    /\ label_history = <<>>

\* main() up to the first input(): prompt_date calls get_next_monday
Start ==
    /\ pc = "start"
    /\ LET r == get_next_monday(today)
       IN  IF r.exc # ""
           THEN pc' = "crashed" /\ crash' = r.exc /\ UNCHANGED next_monday
           ELSE pc' = "date_menu" /\ next_monday' = Some(r.val)
                /\ UNCHANGED crash
    /\ UNCHANGED <<fnvars, today, start_date, calendars, goal, workout_labels,
                   cal_idx, calls, created, last_input, message,
                   prompted_goal, label_history>>

\* prompt_date: the answer to "Enter choice (1 or 2): "
ChooseDate ==
    /\ pc = "date_menu"
    /\ \E inp \in MenuInputs :
          /\ last_input' = inp
          /\ IF Strip(inp) = <<"1">>
             THEN /\ start_date' = next_monday
                  /\ pc' = "calendars"
                  /\ message' = ""
             ELSE IF Strip(inp) = <<"2">>
             THEN /\ pc' = "date_custom"
                  /\ message' = ""
                  /\ UNCHANGED start_date
             ELSE /\ pc' = "date_menu"
                  /\ message' = MenuError
                  /\ UNCHANGED start_date
    /\ UNCHANGED <<fnvars, today, next_monday, calendars, goal, workout_labels,
                   cal_idx, calls, created, crash, prompted_goal,
                   label_history>>

\* prompt_date: the answer to "Enter start date (MM/DD/YYYY, ...): "; a
\* rejected date leads back to the menu
EnterDate ==
    /\ pc = "date_custom"
    /\ \E inp \in DateInputs :
          /\ last_input' = inp
          /\ LET r == validate_date(Strip(inp))
             IN  IF r.exc = ""
                 THEN /\ start_date' = Some(r.val)
                      /\ pc' = "calendars"
                      /\ message' = ""
                 ELSE /\ pc' = "date_menu"
                      /\ message' = DateErrorLine(r.msg)
                      /\ UNCHANGED start_date
    /\ UNCHANGED <<fnvars, today, next_monday, calendars, goal, workout_labels,
                   cal_idx, calls, created, crash, prompted_goal,
                   label_history>>

\* where main() blocks next once the calendars are known and the prompts up
\* to `after` are done
PromptAfter(selected, after) ==
    IF after = "calendars" /\ Has(selected, "Pages Read") THEN "goal"
    ELSE IF Has(selected, "Workouts") THEN "labels"
    ELSE "generate"

\* prompt_calendars: the answer to "Enter choice(s) separated by commas"
ChooseCalendars ==
    /\ pc = "calendars"
    /\ \E inp \in CalendarInputs :
          /\ last_input' = inp
          /\ LET selected == SelectCalendars(Strip(inp))
             IN  IF selected # <<>>
                 THEN /\ calendars' = selected
                      /\ pc' = PromptAfter(selected, "calendars")
                      /\ prompted_goal' =
                             (PromptAfter(selected, "calendars") = "goal")
                      /\ workout_labels' =
                             IF PromptAfter(selected, "calendars") = "labels"
                             THEN Some(<<>>) ELSE NoValue
                      /\ message' = ""
                 ELSE /\ pc' = "calendars"
                      /\ message' = SelectionError
                      /\ UNCHANGED <<calendars, prompted_goal, workout_labels>>
    /\ UNCHANGED <<fnvars, today, next_monday, start_date, goal, cal_idx,
                   calls, created, crash, label_history>>

\* the answer to "Enter weekly page goal (e.g. 100): "
EnterGoal ==
    /\ pc = "goal"
    /\ \E inp \in GoalInputs :
          /\ last_input' = inp
          /\ LET r == ParseInt(Strip(inp))
             IN  IF r.exc # ""
                 THEN /\ message' = GoalNotNumberError
                      /\ UNCHANGED <<pc, goal, workout_labels>>
                 ELSE IF ~GoalAccepted(r.val)
                 THEN /\ goal' = Some(r.val)
                      /\ message' = GoalNotPositiveError
                      /\ UNCHANGED <<pc, workout_labels>>
                 ELSE /\ goal' = Some(r.val)
                      /\ message' = ""
                      /\ pc' = PromptAfter(calendars, "goal")
                      /\ workout_labels' =
                             IF PromptAfter(calendars, "goal") = "labels"
                             THEN Some(<<>>) ELSE NoValue
    /\ UNCHANGED <<fnvars, today, next_monday, start_date, calendars, cal_idx,
                   calls, created, crash, prompted_goal, label_history>>

\* the answer to the workout-label prompt of the next day of DAY_NAMES
EnterLabel ==
    /\ pc = "labels"
    /\ \E inp \in LabelInputs :
          /\ last_input' = inp
          /\ label_history' =
                 Append(label_history,
                        [day |-> DAY_NAMES[Len(workout_labels.val) + 1],
                         answer |-> inp])
          /\ workout_labels' = Some(Append(workout_labels.val, Strip(inp)))
          /\ pc' = IF LabelsComplete(Append(workout_labels.val, Strip(inp)))
                   THEN "generate" ELSE "labels"
    /\ message' = ""
    /\ UNCHANGED <<fnvars, today, next_monday, start_date, calendars, goal,
                   cal_idx, calls, created, crash, prompted_goal>>

\* one iteration of "for cal in calendars": the generate_* call, whose file
\* write succeeds or not, and the "Created:" line; an exception of the call
\* is caught nowhere and ends main()
Generate ==
    /\ pc = "generate"
    /\ \E writable \in BOOLEAN :
          LET cal == calendars[cal_idx + 1]
              job == IF cal = "Pages Read" THEN PagesReadJob(goal.val)
                     ELSE IF cal = "Project Hours" THEN ProjectHoursJob
                     ELSE WorkoutsJob(workout_labels.val)
              r   == generate_calendar(job, start_date.val, writable)
          IN  /\ calls' = Append(calls,
                     [cal |-> cal, start_date |-> start_date,
                      goal |-> IF cal = "Pages Read" THEN goal ELSE NoValue,
                      labels |-> IF cal = "Workouts"
                                 THEN workout_labels ELSE NoValue])
              /\ IF r.exc # ""
                 THEN /\ pc' = "crashed"
                      /\ crash' = r.exc
                      /\ UNCHANGED <<cal_idx, created>>
                 ELSE /\ created' = Append(created, r.val)
                      /\ cal_idx' = cal_idx + 1
                      /\ pc' = IF cal_idx + 1 >= Len(calendars)
                               THEN "done" ELSE "generate"
                      /\ UNCHANGED crash
    /\ UNCHANGED <<fnvars, today, next_monday, start_date, calendars, goal,
                   workout_labels, last_input, message, prompted_goal,
                   label_history>>

Next ==
    \/ Start
    \/ ChooseDate
    \/ EnterDate
    \/ ChooseCalendars
    \/ EnterGoal
    \/ EnterLabel
    \/ Generate

Spec == Init /\ [][Next]_vars

\* C3 as stated: a failure of one variant in the rendering backend or the
\* file write does not stop main() from attempting every remaining selected
\* variant: when main() has ended on such a failure, every selected variant
\* has been attempted.
C3_FailureDoesNotStopLaterVariants ==
    (pc = "crashed" /\ crash = "OSError") => Len(calls) = Len(calendars)

\* the choices of a calendar selection: the stripped pieces between commas
Choices(inp) ==
    LET pieces == Split(Strip(inp))
    IN  [i \in 1..Len(pieces) |-> Strip(pieces[i])]

Recognized(c) == c \in {<<"1">>, <<"2">>, <<"3">>}

NameOf(c) ==
    CASE c = <<"1">> -> "Pages Read"
      [] c = <<"2">> -> "Project Hours"
      [] c = <<"3">> -> "Workouts"

IsAll(inp) == Strip(inp) = <<"4">>

C5_MenuRule ==
    pc = "date_menu" =>
        IF Strip(last_input') \in {<<"1">>, <<"2">>}
        THEN pc' \in {"calendars", "date_custom"} /\ message' = ""
        ELSE pc' = "date_menu" /\ message' = MenuError
             /\ start_date' = start_date

C5_DateRule ==
    pc = "date_custom" =>
        IF validate_date(Strip(last_input')).exc = ""
        THEN pc' = "calendars" /\ start_date'.set /\ message' = ""
        ELSE /\ pc' = "date_menu"
             /\ message' \in {DateErrorLine(FormatMsg), DateErrorLine(MondayMsg)}
             /\ start_date' = start_date

C5_GoalRule ==
    pc = "goal" =>
        LET r == ParseInt(last_input')
        IN  IF r.exc = "" /\ r.val > 0
            THEN pc' # "goal" /\ goal' = Some(r.val) /\ message' = ""
            ELSE /\ pc' = "goal"
                 /\ message' \in {GoalNotPositiveError, GoalNotNumberError}

SelectionRefused ==
    pc' = "calendars" /\ message' = SelectionError /\ calendars' = calendars

SelectionTaken ==
    /\ pc' # "calendars" /\ message' = "" /\ calendars' # <<>>
    /\ \A i, j \in 1..Len(calendars') : calendars'[i] = calendars'[j] => i = j
    /\ IF IsAll(last_input')
       THEN {calendars'[i] : i \in 1..Len(calendars')}
                = {"Pages Read", "Project Hours", "Workouts"}
       ELSE {calendars'[i] : i \in 1..Len(calendars')}
                = {NameOf(Choices(last_input')[k]) :
                      k \in {k \in 1..Len(Choices(last_input')) :
                                Recognized(Choices(last_input')[k])}}

C5_SelectionRuleAsStated ==
    pc = "calendars" =>
        IF ~IsAll(last_input')
           /\ \E k \in 1..Len(Choices(last_input')) :
                  ~Recognized(Choices(last_input')[k])
        THEN SelectionRefused
        ELSE SelectionTaken

C5_SelectionRuleAmended ==
    pc = "calendars" =>
        IF ~IsAll(last_input')
           /\ \A k \in 1..Len(Choices(last_input')) :
                  ~Recognized(Choices(last_input')[k])
        THEN SelectionRefused
        ELSE SelectionTaken

\* C5 as stated: at every prompt an invalid input (a menu choice other than 1
\* or 2, a date validate_date rejects, a calendar selection containing a
\* choice that is not recognized, a goal that is no positive integer) is not
\* accepted: an error is printed and the prompt sequence does not advance;
\* it advances only on a valid input.
C5_InvalidInputNeverAccepted ==
    [][C5_MenuRule /\ C5_DateRule /\ C5_SelectionRuleAsStated /\ C5_GoalRule]_vars

\* C5 amended: a calendar selection is refused only when it is not "4" and
\* none of its choices is recognized; with at least one recognized choice it
\* is accepted and its other choices are ignored.  The other prompts are as
\* stated (a refused date leads back to the start-date menu).
C5_InvalidInputReprompts ==
    [][C5_MenuRule /\ C5_DateRule /\ C5_SelectionRuleAmended /\ C5_GoalRule]_vars

\* the selection "9" was refused and the selection prompt is repeated
C5_Witness ==
    /\ pc = "calendars" /\ message = SelectionError
    /\ last_input = <<"9">> /\ calendars = <<>>

\* C8: the goal is prompted iff the reading tracker is selected, the workout
\* labels iff the workout tracker is selected; every generate_pages_read call
\* gets a positive integer goal and every generate_workouts call gets exactly
\* seven labels, the stripped answers to the prompts for Mon..Sun in order.
C8_PromptsMatchSelection ==
    /\ prompted_goal <=> Has(calendars, "Pages Read")
    /\ (workout_labels.set \/ label_history # <<>>) => Has(calendars, "Workouts")
    /\ (pc \in {"generate", "done"} \/ calls # <<>>) =>
           /\ Len(label_history) = IF Has(calendars, "Workouts") THEN 7 ELSE 0
           /\ Has(calendars, "Pages Read") => goal.set
    /\ \A i \in 1..Len(calls) :
           /\ calls[i].cal = "Pages Read" =>
                  calls[i].goal.set /\ calls[i].goal.val > 0
           /\ calls[i].cal = "Workouts" =>
                  /\ calls[i].labels.set
                  /\ Len(calls[i].labels.val) = 7
                  /\ \A d \in 1..7 :
                        /\ label_history[d].day = DAY_NAMES[d]
                        /\ calls[i].labels.val[d] = Strip(label_history[d].answer)

\* a finished run of the workout and the reading tracker, with goal 7
C8_Witness ==
    /\ pc = "done"
    /\ calendars = <<"Workouts", "Pages Read">>
    /\ Len(calls) = 2
    /\ calls[2].goal = Some(7)
    /\ calls[1].labels.val[1] = <<"R", "u", "n">>

====
